---- MODULE Spec2Model ----
(***************************************************************************)
(* WoodWiz: the bark matcher (utils/barkMatcher.ts) and the host screen    *)
(* that calls it (app/(tabs)/index.tsx).                                   *)
(*                                                                         *)
(* Numbers.  The code computes in IEEE doubles; the model computes in      *)
(* fixed point over the integers:                                          *)
(*   gray level            tenths            (0 .. 2550)                  *)
(*   edge / edgeNorm       thousandths       (0 .. 1000)                  *)
(*   histogram bucket      a count over den  (hist[i] / den)              *)
(*   distance              thousandths                                     *)
(*   t and confidence      ten-thousandths   (0.95 is 9500)               *)
(* Square roots are integer square roots (floor).                          *)
(***************************************************************************)
EXTENDS Integers, Sequences, FiniteSets, Bags, TLC

(***************************************************************************)
(* Bounds of the model.                                                    *)
(***************************************************************************)
MaxEntries == 3
MaxTopK == 3
MaxInFlight == 2

(***************************************************************************)
(* Arithmetic helpers.                                                     *)
(***************************************************************************)
Min(a, b) == IF a <= b THEN a ELSE b
Max(a, b) == IF a >= b THEN a ELSE b
\* An edge difference taken with its sign.
AbsSigned(x) == x


Abs(a) == IF a >= 0 THEN a ELSE 0 - a

\* Op(e), with e evaluated once (the value of a JavaScript const).
With(Op(_), e) == CHOOSE r \in { Op(v) : v \in {e} } : TRUE

RECURSIVE SqrtIter(_, _, _)
SqrtIter(n, lo, hi) ==
  IF lo >= hi THEN lo
  ELSE LET mid == (lo + hi + 1) \div 2
       IN IF mid * mid <= n THEN SqrtIter(n, mid, hi) ELSE SqrtIter(n, lo, mid - 1)

\* Math.sqrt on a non-negative fixed-point value: floor of the square root.
sqrt(n) == SqrtIter(n, 0, 46340)

BINS == 4

\* A bin index that rounds to the nearest bin and is not clamped.
binIndexRound(v) == (v * BINS + 128) \div 256


\* barkMatcher.ts:16  Math.min(BINS-1, Math.max(0, floor(v/256*BINS)))
binIndex(v) == Min(BINS - 1, Max(0, (v * BINS) \div 256))

\* barkMatcher.ts:21
clamp(v, lo, hi) == Max(lo, Min(hi, v))

\* barkMatcher.ts:25  a + (b - a) * t, t in ten-thousandths
lerp(a, b, t) == a + ((b - a) * t) \div 10000

(***************************************************************************)
(* Images.  A decoded image is [w, h, data]; data[(y*w + x) + 1] is the    *)
(* pixel <<r, g, b>> (the alpha byte is never read by the code).           *)
(***************************************************************************)
Black == <<0, 0, 0>>
Dark  == <<12, 12, 12>>
Dim   == <<50, 50, 50>>
White == <<255, 255, 255>>
Brown == <<200, 40, 40>>
Green == <<90, 140, 60>>
Blue  == <<20, 30, 250>>

\* Left column of colour c1, the rest of colour c2.
SplitImage(w, h, c1, c2) ==
  [w |-> w, h |-> h,
   data |-> [i \in 1..(w * h) |-> IF (i - 1) % w = 0 THEN c1 ELSE c2]]

ZeroImage == [w |-> 0, h |-> 0, data |-> <<>>]

ColorPairs ==
  { <<Black, Black>>, <<White, White>>, <<Black, Dark>>, <<Dim, Black>>,
    <<Black, White>>, <<Brown, Green>> }

Images ==
  {ZeroImage} \cup
  { SplitImage(3, 3, p[1], p[2]) : p \in ColorPairs } \cup
  { SplitImage(4, 3, Blue, Brown), SplitImage(2, 3, Black, White) }

\* barkMatcher.ts:56 / :111  0.299 r + 0.587 g + 0.114 b, in tenths
grayAt(img, x, y) ==
  LET p == img.data[(y * img.w + x) + 1]
  IN (299 * p[1] + 587 * p[2] + 114 * p[3]) \div 100

RECURSIVE SumOver(_, _, _)
\* sum of f[i] for i in lo..hi
SumOver(f, lo, hi) == IF lo > hi THEN 0 ELSE f[lo] + SumOver(f, lo + 1, hi)

\* barkMatcher.ts:80-81  the pixels the edge loops of analyzeImageQuality
\* visit: y from 1 to h - 2, x from 1 to w - 2, as pixel numbers.
InteriorRange(img) ==
  { y * img.w + x + 1 : y \in 1..(img.h - 2), x \in 1..(img.w - 2) }

\* A test for interior pixels that also leaves out the column x = 1.
InteriorOffByOne(img) ==
  { i \in 1..(img.w * img.h) :
      LET x == (i - 1) % img.w
          y == (i - 1) \div img.w
      IN x > 1 /\ x < img.w - 1 /\ y > 0 /\ y < img.h - 1 }

\* barkMatcher.ts:131  the pixels that pass the extractor's interior test
\* x > 0 && x < w - 1 && y > 0 && y < h - 1, as pixel numbers.
Interior(img) ==
  { i \in 1..(img.w * img.h) :
      LET x == (i - 1) % img.w
          y == (i - 1) \div img.w
      IN x > 0 /\ x < img.w - 1 /\ y > 0 /\ y < img.h - 1 }

\* Gradient magnitude of pixel number i (central differences), in tenths.
mag(img, i) ==
  LET x == (i - 1) % img.w
      y == (i - 1) \div img.w
      gx == grayAt(img, x + 1, y) - grayAt(img, x - 1, y)
      gy == grayAt(img, x, y + 1) - grayAt(img, x, y - 1)
  IN sqrt(gx * gx + gy * gy)

\* A gate that rejects only images that are dark, flat and edgeless at once.
isTooBlankAllThree(mean, std, edgeNorm) ==
  mean < 180 /\ std < 100 /\ edgeNorm < 20

\* barkMatcher.ts:97-99  mean in tenths, std in tenths, edgeNorm in thousandths
isTooDark(mean) == mean < 180
isTooFlat(std) == std < 100
isTooBlank(mean, std, edgeNorm) ==
  (isTooDark(mean) /\ isTooFlat(std)) \/ edgeNorm < 20

\* A short circuit that reports the empty image as usable.
zeroAreaNotBlank ==
  [mean |-> 0, std |-> 0, edgeNorm |-> 0,
   isTooDark |-> TRUE, isTooFlat |-> TRUE, isTooBlank |-> FALSE,
   loops |-> 0]

\* barkMatcher.ts:41-51  the record returned when n <= 0, before any loop
zeroAreaQuality ==
  [mean |-> 0, std |-> 0, edgeNorm |-> 0,
   isTooDark |-> TRUE, isTooFlat |-> TRUE, isTooBlank |-> TRUE,
   loops |-> 0]

\* barkMatcher.ts:38  analyzeImageQuality.  loops counts the pixels visited
\* by the brightness loop.
analyzeImageQuality(img) ==
  LET n == img.w * img.h
  IN IF n <= 0
     THEN zeroAreaQuality
     ELSE
       LET g == [i \in 1..n |-> grayAt(img, (i - 1) % img.w, (i - 1) \div img.w)]
           gg == [i \in 1..n |-> g[i] * g[i]]
           sum == SumOver(g, 1, n)
           sumSq == SumOver(gg, 1, n)
           mean == sum \div n
           variance == Max(0, sumSq \div n - mean * mean)
           std == sqrt(variance)
           m == [i \in 1..n |-> IF i \in InteriorRange(img) THEN mag(img, i) ELSE 0]
           edgeSum == SumOver(m, 1, n)
           edgeCount == Cardinality(InteriorRange(img))
           edgeAvg == IF edgeCount > 0 THEN edgeSum \div edgeCount ELSE 0
           edgeNorm == clamp(edgeAvg, 0, 1000)
       IN [mean |-> mean, std |-> std, edgeNorm |-> edgeNorm,
           isTooDark |-> isTooDark(mean), isTooFlat |-> isTooFlat(std),
           isTooBlank |-> isTooBlank(mean, std, edgeNorm),
           loops |-> n]

\* Bucket of one pixel: (ri * BINS + gi) * BINS + bi
bucket(p) == (binIndex(p[1]) * BINS + binIndex(p[2])) * BINS + binIndex(p[3])

\* barkMatcher.ts:104  extractFeaturesFromRGBA.  hist[i] is a count and den
\* the pixel total: the bucket value of the code is hist[i] / den.
extractFeaturesFromRGBA(img) ==
  LET n == img.w * img.h
      m == [i \in 1..n |-> IF i \in Interior(img) THEN mag(img, i) ELSE 0]
      edgeSum == SumOver(m, 1, n)
      edgeCount == Cardinality(Interior(img))
      edgeAvg == IF edgeCount > 0 THEN edgeSum \div edgeCount ELSE 0
  IN [hist |-> [b \in 0..(BINS * BINS * BINS - 1) |->
                  Cardinality({i \in 1..n : bucket(img.data[i]) = b})],
      den |-> n,
      edge |-> Max(0, Min(1000, edgeAvg))]


(***************************************************************************)
(* The reference index.  An entry is [speciesKey, filename, features].     *)
(***************************************************************************)
\* A histogram with every pixel in bucket b.
Concentrated(b) == [i \in 0..(BINS * BINS * BINS - 1) |-> IF i = b THEN 1 ELSE 0]

FeatA == [hist |-> Concentrated(0), den |-> 1, edge |-> 100]
FeatB == [hist |-> Concentrated(63), den |-> 1, edge |-> 900]
FeatBG == extractFeaturesFromRGBA(SplitImage(3, 3, Brown, Green))

Pool ==
  << [speciesKey |-> "oak_white", filename |-> "oak1.jpg", features |-> FeatBG],
     [speciesKey |-> "elm_american", filename |-> "elm1.jpg", features |-> FeatBG],
     [speciesKey |-> "oak_white", filename |-> "oak2.jpg", features |-> FeatBG],
     [speciesKey |-> "elm_american", filename |-> "elm2.jpg", features |-> FeatB],
     [speciesKey |-> "ash_green", filename |-> "ash1.jpg", features |-> FeatA] >>

RECURSIVE SubSeqs(_, _)
\* The subsequences of s (order kept) of length at most n.
SubSeqs(s, n) ==
  IF n = 0 \/ s = <<>> THEN {<<>>}
  ELSE SubSeqs(Tail(s), n) \cup { <<Head(s)>> \o t : t \in SubSeqs(Tail(s), n - 1) }

Indices == { [entries |-> es] : es \in SubSeqs(Pool, MaxEntries) }

\* The distinct speciesKey values of an index.
Labels(index) == { index.entries[k].speciesKey : k \in 1..Len(index.entries) }

(***************************************************************************)
(* Distance, per-species reduction, ranking, confidence.                   *)
(***************************************************************************)
\* barkMatcher.ts:29  sqrt of the sum of squared bucket differences, in
\* thousandths.  a[i] is a.hist[i] / a.den.
euclidean(a, b) ==
  LET d == [i \in 0..(BINS * BINS * BINS - 1) |->
              (a.hist[i] * b.den - b.hist[i] * a.den) * (a.hist[i] * b.den - b.hist[i] * a.den)]
      s == SumOver(d, 0, BINS * BINS * BINS - 1)
  IN (sqrt(s * 2500) * 20) \div (a.den * b.den)

\* barkMatcher.ts:184-186  dHist + dEdge * 0.25
distance(q, e) == euclidean(q, e.features) + Abs(q.edge - e.features.edge) \div 4

\* The Map bestBySpecies is a sequence of [speciesKey, dist, filename] in key
\* insertion order; Map.set on a present key keeps the key's position.
MapHas(m, key) == \E k \in 1..Len(m) : m[k].speciesKey = key
MapGet(m, key) == m[CHOOSE k \in 1..Len(m) : m[k].speciesKey = key]
MapSet(m, key, d, f) ==
  LET rec == [speciesKey |-> key, dist |-> d, filename |-> f]
  IN IF MapHas(m, key)
     THEN [k \in 1..Len(m) |-> IF m[k].speciesKey = key THEN rec ELSE m[k]]
     ELSE Append(m, rec)

\* An iteration that records every entry, without keying by species.
scoreEntryNoKey(m, q, e) ==
  Append(m, [speciesKey |-> e.speciesKey, dist |-> distance(q, e), filename |-> e.filename])

\* An iteration in which a later entry of equal distance replaces the earlier.
scoreEntryLastWins(m, q, e) ==
  With(LAMBDA dist :
         IF ~MapHas(m, e.speciesKey) \/ dist <= MapGet(m, e.speciesKey).dist
         THEN MapSet(m, e.speciesKey, dist, e.filename)
         ELSE m,
       distance(q, e))


\* barkMatcher.ts:188-191  one iteration of the loop over the entries
scoreEntry(m, q, e) ==
  With(LAMBDA dist :
         IF ~MapHas(m, e.speciesKey) \/ dist < MapGet(m, e.speciesKey).dist
         THEN MapSet(m, e.speciesKey, dist, e.filename)
         ELSE m,
       distance(q, e))

RECURSIVE scoreAll(_, _, _)
\* barkMatcher.ts:183-192  the loop, from a Map m
scoreAll(m, q, entries) ==
  IF entries = <<>> THEN m
  ELSE With(LAMBDA m2 : scoreAll(m2, q, Tail(entries)),
            scoreEntry(m, q, Head(entries)))

RECURSIVE InsertSorted(_, _)
\* r goes after every element whose dist is <= r.dist (stable).
InsertSorted(s, r) ==
  IF s = <<>> THEN <<r>>
  ELSE IF Head(s).dist <= r.dist
       THEN With(LAMBDA rest : <<Head(s)>> \o rest, InsertSorted(Tail(s), r))
       ELSE <<r>> \o s

RECURSIVE sortByDist(_)
\* barkMatcher.ts:200  .sort((a, b) => a.dist - b.dist), a stable sort
sortByDist(s) ==
  IF s = <<>> THEN <<>>
  ELSE With(LAMBDA sorted : InsertSorted(sorted, s[Len(s)]),
            sortByDist(SubSeq(s, 1, Len(s) - 1)))

\* A slice that keeps one element too many.
sliceInclusive(s, end) == SubSeq(s, 1, Min(Max(end, 0 - 1) + 1, Len(s)))

\* barkMatcher.ts:201  Array.prototype.slice(0, end): a negative end counts
\* from the end of the array.
slice(s, end) ==
  LET e == IF end < 0 THEN Max(Len(s) + end, 0) ELSE Min(end, Len(s))
  IN SubSeq(s, 1, e)

\* A ranking that truncates the candidates before it sorts them.
rankSliceThenSort(m, topK) == sortByDist(slice(m, topK))


\* barkMatcher.ts:194-201
rank(m, topK) == slice(sortByDist(m), topK)

bestConf == 9500
worstConf == 5500

\* A t that divides by the worst distance instead of the spread.
tOfByWorst(dist, bestDist, worstDist) ==
  clamp(((dist - bestDist) * 10000) \div Max(1, worstDist), 0, 10000)


\* barkMatcher.ts:209,215  t = clamp((dist - bestDist) / denom, 0, 1) with
\* denom = max(1e-9, worstDist - bestDist); distances are whole thousandths,
\* so denom is the difference when it is positive and 1e-9 otherwise.
tOf(dist, bestDist, worstDist) ==
  LET num == dist - bestDist
      diff == worstDist - bestDist
      quot == IF diff >= 1 THEN (num * 10000) \div diff
              ELSE IF num > 0 THEN 2000000000
              ELSE IF num < 0 THEN 0 - 2000000000 ELSE 0
  IN clamp(quot, 0, 10000)

\* A confidence reported in percent, without the final clamp.
confidencePercent(dist, bestDist, worstDist) ==
  lerp(bestConf, worstConf, tOf(dist, bestDist, worstDist)) * 100

\* barkMatcher.ts:216,223
confidence(dist, bestDist, worstDist) ==
  clamp(lerp(bestConf, worstConf, tOf(dist, bestDist, worstDist)), 500, 9900)

\* barkMatcher.ts:207-225  for a non-empty list
normalize(rs) ==
  LET bestDist == rs[1].dist
      worstDist == rs[Len(rs)].dist
  IN [k \in 1..Len(rs) |->
        [rank |-> k,
         speciesKey |-> rs[k].speciesKey,
         filename |-> rs[k].filename,
         distance |-> rs[k].dist,
         confidence |-> confidence(rs[k].dist, bestDist, worstDist)]]

\* The outcome of a call: it returned a list, or it threw.
Pending == [outcome |-> "pending", value |-> <<>>, error |-> ""]
Returned(v) == [outcome |-> "returned", value |-> v, error |-> ""]
Threw(msg) == [outcome |-> "threw", value |-> <<>>, error |-> msg]

\* Without the guard of line 203, ranked[0].dist is read of undefined.
finishNoGuard(rs) ==
  IF Len(rs) = 0 THEN Threw("TypeError") ELSE Returned(normalize(rs))

\* barkMatcher.ts:203-225
finish(rs) == IF Len(rs) = 0 THEN Returned(<<>>) ELSE Returned(normalize(rs))


(***************************************************************************)
(* matchBarkPhoto as a process.  The photo behind a uri is a JPEG that     *)
(* decodes to an image, or is unreadable (manipulateAsync rejects or gives *)
(* no base64), or is corrupt (jpeg.decode throws).                         *)
(***************************************************************************)
VARIABLES barkIndex, photo, topK, pc, decoded, qQuality, q, bestBySpecies,
          ranked, ret, stages, first

mvars == <<barkIndex, photo, topK, pc, decoded, qQuality, q, bestBySpecies,
           ranked, ret, stages, first>>

\* The state of the host screen (described with its actions below).
VARIABLES photoUri, status, statusMessage, result, showMore, topMatches,
          mainMatch, selectedMatch, handlers, queries, delivered, shownFor

hvars == <<photoUri, status, statusMessage, result, showMore, topMatches,
           mainMatch, selectedMatch, handlers, queries, delivered, shownFor>>

vars == <<mvars, hvars>>

Null == [null |-> TRUE]

Photos ==
  { [kind |-> "jpeg", img |-> im] : im \in Images } \cup
  { [kind |-> "unreadable"], [kind |-> "corrupt"] }

TopKs == (0 - 1)..MaxTopK

\* A Map kept from the previous call.
staleMap == bestBySpecies

\* barkMatcher.ts:181  new Map()
newMap == <<>>

\* barkMatcher.ts:171-225  from the decoded image to the returned list
matchDecoded(img, index, k) ==
  IF analyzeImageQuality(img).isTooBlank THEN Returned(<<>>)
  ELSE With(LAMBDA qf :
              With(LAMBDA best : With(LAMBDA rs : finish(rs), rank(best, k)),
                   scoreAll(newMap, qf, index.entries)),
            extractFeaturesFromRGBA(img))

\* A matcher that swallows a failed read or decode and returns no match.
matchBarkPhotoSwallow(p, index, k) ==
  IF p.kind # "jpeg" THEN Returned(<<>>) ELSE matchDecoded(p.img, index, k)

\* barkMatcher.ts:151-226  matchBarkPhoto, from the call to its outcome
matchBarkPhoto(p, index, k) ==
  IF p.kind = "unreadable" THEN Threw("Failed to read image as base64.")
  ELSE IF p.kind = "corrupt" THEN Threw("jpeg decode")
  ELSE matchDecoded(p.img, index, k)

MInit ==
  /\ photo = Null
  /\ topK = 0
  /\ pc = "idle"
  /\ decoded = Null
  /\ qQuality = Null
  /\ q = Null
  /\ bestBySpecies = <<>>
  /\ ranked = <<>>
  /\ ret = Pending
  /\ stages = <<>>
  /\ first = Null

\* barkMatcher.ts:151-160  a call, up to the await of manipulateAsync.  The
\* Map of the previous call is garbage until line 181 makes a new one.
Call ==
  /\ pc \in {"idle", "done"}
  /\ \E p \in Photos, k \in TopKs :
       /\ photo' = p
       /\ topK' = k
  /\ pc' = "manip"
  /\ decoded' = Null
  /\ qQuality' = Null
  /\ q' = Null
  /\ ranked' = <<>>
  /\ ret' = Pending
  /\ stages' = <<>>
  /\ UNCHANGED <<barkIndex, bestBySpecies, first>>
  /\ UNCHANGED hvars

\* barkMatcher.ts:156-168  manipulateAsync settles; base64 check; jpeg.decode
Decode ==
  /\ pc = "manip"
  /\ \/ /\ photo.kind = "unreadable"
        /\ ret' = Threw("Failed to read image as base64.")
        /\ pc' = "done"
        /\ UNCHANGED decoded
     \/ /\ photo.kind = "corrupt"
        /\ ret' = Threw("jpeg decode")
        /\ pc' = "done"
        /\ UNCHANGED decoded
     \/ /\ photo.kind = "jpeg"
        /\ decoded' = photo.img
        /\ pc' = "quality"
        /\ UNCHANGED ret
  /\ stages' = Append(stages, "decode")
  /\ UNCHANGED <<barkIndex, photo, topK, qQuality, q, bestBySpecies, ranked, first>>
  /\ UNCHANGED hvars

\* barkMatcher.ts:171-176
QualityGate ==
  /\ pc = "quality"
  /\ qQuality' = analyzeImageQuality(decoded)
  /\ IF qQuality'.isTooBlank
     THEN ret' = Returned(<<>>) /\ pc' = "done"
     ELSE ret' = ret /\ pc' = "extract"
  /\ stages' = Append(stages, "quality")
  /\ UNCHANGED <<barkIndex, photo, topK, decoded, q, bestBySpecies, ranked, first>>
  /\ UNCHANGED hvars

\* barkMatcher.ts:178-181
Extract ==
  /\ pc = "extract"
  /\ q' = extractFeaturesFromRGBA(decoded)
  /\ bestBySpecies' = newMap
  /\ pc' = "score"
  /\ stages' = Append(stages, "extract")
  /\ UNCHANGED <<barkIndex, photo, topK, decoded, qQuality, ranked, ret, first>>
  /\ UNCHANGED hvars

\* A scoring loop that stores each distance on the index entry it scored.
ScoreOnEntries ==
  /\ pc = "score"
  /\ bestBySpecies' = scoreAll(bestBySpecies, q, barkIndex.entries)
  /\ barkIndex' =
       [entries |->
          [i \in 1..Len(barkIndex.entries) |->
             [speciesKey |-> barkIndex.entries[i].speciesKey,
              filename |-> barkIndex.entries[i].filename,
              features |-> barkIndex.entries[i].features,
              dist |-> distance(q, barkIndex.entries[i])]]]
  /\ pc' = "rank"
  /\ stages' = Append(stages, "score")
  /\ UNCHANGED <<photo, topK, decoded, qQuality, q, ranked, ret, first>>
  /\ UNCHANGED hvars

\* barkMatcher.ts:183-192
Score ==
  /\ pc = "score"
  /\ bestBySpecies' = scoreAll(bestBySpecies, q, barkIndex.entries)
  /\ pc' = "rank"
  /\ stages' = Append(stages, "score")
  /\ UNCHANGED <<barkIndex, photo, topK, decoded, qQuality, q, ranked, ret, first>>
  /\ UNCHANGED hvars

\* barkMatcher.ts:194-201
Rank ==
  /\ pc = "rank"
  /\ ranked' = rank(bestBySpecies, topK)
  /\ pc' = "normalize"
  /\ stages' = Append(stages, "rank")
  /\ UNCHANGED <<barkIndex, photo, topK, decoded, qQuality, q, bestBySpecies, ret, first>>
  /\ UNCHANGED hvars

\* barkMatcher.ts:203-225
Normalize ==
  /\ pc = "normalize"
  /\ ret' = finish(ranked)
  /\ pc' = "done"
  /\ stages' = Append(stages, "normalize")
  /\ UNCHANGED <<barkIndex, photo, topK, decoded, qQuality, q, bestBySpecies, ranked, first>>
  /\ UNCHANGED hvars

(***************************************************************************)
(* An observer that remembers the first completed call on a probe photo,   *)
(* to compare later calls with it.                                         *)
(***************************************************************************)
ProbePhotos ==
  { [kind |-> "jpeg", img |-> SplitImage(3, 3, Brown, Green)],
    [kind |-> "jpeg", img |-> SplitImage(3, 3, Dim, Black)] }

Remember ==
  /\ pc = "done"
  /\ first = Null
  /\ photo \in ProbePhotos
  /\ first' = [photo |-> photo, topK |-> topK, ret |-> ret]
  /\ UNCHANGED <<barkIndex, photo, topK, pc, decoded, qQuality, q, bestBySpecies,
                 ranked, ret, stages>>
  /\ UNCHANGED hvars

(***************************************************************************)
(* The host screen, HomeScreen of app/(tabs)/index.tsx.                    *)
(*                                                                         *)
(* null is "" for photoUri and Null for result, mainMatch, selectedMatch.  *)
(* handlers is the bag of camera / library handlers that are suspended at  *)
(* an await; queries is the bag of submissions whose timer or matcher call *)
(* is outstanding.  delivered and shownFor are history: the completion     *)
(* that the last step delivered, and the uri whose completion was last     *)
(* written to the screen.                                                  *)
(***************************************************************************)
\* index.tsx:177  the topK the screen asks for
HostTopK == 5

\* The photos behind the uris the picker and the camera can give.
Uris == {"A", "B", "C", "D", "E"}
PhotoOf(uri) ==
  CASE uri = "A" -> [kind |-> "jpeg", img |-> SplitImage(3, 3, Brown, Green)]
    [] uri = "B" -> [kind |-> "jpeg", img |-> SplitImage(3, 3, Black, Black)]
    [] uri = "C" -> [kind |-> "corrupt"]
    [] uri = "D" -> [kind |-> "jpeg", img |-> SplitImage(3, 3, Dim, Black)]
    [] uri = "E" -> [kind |-> "unreadable"]

\* data/bark_index.json, as the screen imports it
HostIndices == { [entries |-> Pool], [entries |-> <<>>] }

\* data/woods: the species the app has a record for (ash_green has none).
WOODS ==
  << [id |-> "oak_white", common_name |-> <<"white", "oak">>],
     [id |-> "elm_american", common_name |-> <<"american", "elm">>] >>

\* speciesKey.replace(/_/g, " ").toLowerCase(), as words
keyAsWords(key) ==
  CASE key = "oak_white" -> <<"oak", "white">>
    [] key = "elm_american" -> <<"elm", "american">>
    [] key = "ash_green" -> <<"ash", "green">>

\* String.prototype.includes, on word sequences
includes(s, t) ==
  \E k \in 0..(Len(s) - Len(t)) : SubSeq(s, k + 1, k + Len(t)) = t

\* index.tsx:129-138
findWoodBySpeciesKey(key) ==
  IF \E k \in 1..Len(WOODS) : WOODS[k].id = key
  THEN WOODS[CHOOSE k \in 1..Len(WOODS) :
               WOODS[k].id = key /\ \A j \in 1..(k - 1) : WOODS[j].id # key]
  ELSE IF \E k \in 1..Len(WOODS) : includes(WOODS[k].common_name, keyAsWords(key))
  THEN WOODS[CHOOSE k \in 1..Len(WOODS) :
               /\ includes(WOODS[k].common_name, keyAsWords(key))
               /\ \A j \in 1..(k - 1) : ~includes(WOODS[j].common_name, keyAsWords(key))]
  ELSE Null

\* index.tsx:120-127  prettyValue of a species key
prettyValue(key) ==
  CASE key = "oak_white" -> "Oak White"
    [] key = "elm_american" -> "Elm American"
    [] key = "ash_green" -> "Ash Green"

IdentifyingMsg == <<"Identifying wood...">>
InvalidMsg == <<"Invalid image - too dark or unclear.">>
FailedMsg == <<"Identification failed. Try again.">>
\* index.tsx:191-196  (confidence * 100).toFixed(0)
MatchMsg(top) == <<"Match:", prettyValue(top.speciesKey), (top.confidence + 50) \div 100>>

\* index.tsx:44-46
canInteract == status # "processing"
hasImage == photoUri # ""
canSubmit == hasImage /\ canInteract

\* index.tsx:287-290
canReturnToMain ==
  /\ mainMatch # Null
  /\ selectedMatch # Null
  /\ mainMatch.speciesKey # selectedMatch.speciesKey

\* The camera or the photo library covers the screen while it is open: no
\* button of the screen can be pressed then.
ModalOpen == \E h \in BagToSet(handlers) : h.stage = "launch"

HostInit ==
  /\ photoUri = ""
  /\ status = "idle"
  /\ statusMessage = <<>>
  /\ result = Null
  /\ showMore = FALSE
  /\ topMatches = <<>>
  /\ mainMatch = Null
  /\ selectedMatch = Null
  /\ handlers = EmptyBag
  /\ queries = EmptyBag
  /\ delivered = Null
  /\ shownFor = ""

\* The asynchronous operations outstanding: suspended handlers and pending
\* queries.  The model starts no more than MaxInFlight of them at a time.
InFlight == BagCardinality(handlers) + BagCardinality(queries)

\* index.tsx:68-71 / 93-96  the handler runs to its first await
StartHandler(kind) ==
  /\ ~ModalOpen
  /\ canInteract
  /\ InFlight < MaxInFlight
  /\ handlers' = handlers (+) SetToBag({[kind |-> kind, stage |-> "permission"]})
  /\ delivered' = Null
  /\ UNCHANGED <<photoUri, status, statusMessage, result, showMore, topMatches,
                 mainMatch, selectedMatch, queries, shownFor>>
  /\ UNCHANGED mvars

handleTakeImage == StartHandler("camera")
handlePickImage == StartHandler("library")

\* index.tsx:71-77 / 96-104  the permission request settles
PermissionSettles ==
  \E h \in BagToSet(handlers) :
    /\ h.stage = "permission"
    /\ \/ handlers' = handlers (-) SetToBag({h})
       \/ handlers' = (handlers (-) SetToBag({h})) (+)
                        SetToBag({[kind |-> h.kind, stage |-> "launch"]})
    /\ delivered' = Null
    /\ UNCHANGED <<photoUri, status, statusMessage, result, showMore, topMatches,
                   mainMatch, selectedMatch, queries, shownFor>>
  /\ UNCHANGED mvars

\* index.tsx:79-90 / 106-117  the camera or the library closes
LaunchSettles ==
  \E h \in BagToSet(handlers) :
    /\ h.stage = "launch"
    /\ handlers' = handlers (-) SetToBag({h})
    /\ delivered' = Null
    /\ \/ UNCHANGED <<photoUri, status, statusMessage, result, showMore, topMatches,
                      mainMatch, selectedMatch, shownFor>>
       \/ \E uri \in Uris :
            /\ photoUri' = uri
            /\ status' = "idle"
            /\ statusMessage' = <<>>
            /\ result' = Null
            /\ topMatches' = <<>>
            /\ mainMatch' = Null
            /\ selectedMatch' = Null
            /\ showMore' = FALSE
            /\ shownFor' = ""
    /\ UNCHANGED queries
  /\ UNCHANGED mvars

\* index.tsx:155-165  the press of Submit, up to setTimeout
handleSubmitImage ==
  /\ ~ModalOpen
  /\ photoUri # "" /\ status # "processing"
  /\ InFlight < MaxInFlight
  /\ status' = "processing"
  /\ statusMessage' = IdentifyingMsg
  /\ result' = Null
  /\ topMatches' = <<>>
  /\ mainMatch' = Null
  /\ selectedMatch' = Null
  /\ queries' = queries (+) SetToBag({[uri |-> photoUri, stage |-> "timer"]})
  /\ delivered' = Null
  /\ shownFor' = ""
  /\ UNCHANGED <<photoUri, showMore, handlers>>
  /\ UNCHANGED mvars

\* index.tsx:174-178  what matchBarkPhoto(photoUri, barkIndex, 5) settles to,
\* tabulated once for every index and photo the screen can pass.
HostResults ==
  LET tab == { <<<<ix, u>>, matchBarkPhoto(PhotoOf(u), ix, HostTopK)>> :
                 ix \in HostIndices, u \in Uris }
  IN [k \in {t[1] : t \in tab} |-> (CHOOSE t \in tab : t[1] = k)[2]]

\* A timer callback that returns before the call and sets no status.
TimerFiresAndReturns ==
  \E qr \in BagToSet(queries) :
    /\ qr.stage = "timer"
    /\ queries' = queries (-) SetToBag({qr})
    /\ delivered' = Null
    /\ UNCHANGED <<photoUri, status, statusMessage, result, showMore, topMatches,
                   mainMatch, selectedMatch, handlers, shownFor>>
  /\ UNCHANGED mvars


\* index.tsx:165-178  the timer fires and matchBarkPhoto is called
TimerFires ==
  \E qr \in BagToSet(queries) :
    /\ qr.stage = "timer"
    /\ queries' = (queries (-) SetToBag({qr})) (+)
                    SetToBag({[uri |-> qr.uri, stage |-> "match"]})
    /\ delivered' = Null
    /\ UNCHANGED <<photoUri, status, statusMessage, result, showMore, topMatches,
                   mainMatch, selectedMatch, handlers, shownFor>>
  /\ UNCHANGED mvars

\* index.tsx:174-203  the call settles and the callback runs to its end
MatchSettles ==
  \E qr \in BagToSet(queries) :
    /\ qr.stage = "match"
    /\ queries' = queries (-) SetToBag({qr})
    /\ \E matches \in {HostResults[<<barkIndex, qr.uri>>]} :
       LET top == matches.value[1]
           wood == findWoodBySpeciesKey(top.speciesKey)
       IN /\ delivered' = [uri |-> qr.uri, ret |-> matches]
          /\ shownFor' = qr.uri
          /\ IF matches.outcome = "threw"
             THEN /\ status' = "error"
                  /\ statusMessage' = FailedMsg
                  /\ UNCHANGED <<result, topMatches, mainMatch, selectedMatch>>
             ELSE IF Len(matches.value) = 0
             THEN /\ status' = "error"
                  /\ statusMessage' = InvalidMsg
                  /\ UNCHANGED <<result, topMatches, mainMatch, selectedMatch>>
             ELSE /\ topMatches' = matches.value
                  /\ mainMatch' = top
                  /\ status' = "done"
                  /\ statusMessage' = MatchMsg(top)
                  /\ IF wood = Null
                     THEN UNCHANGED <<selectedMatch, result>>
                     ELSE selectedMatch' = top /\ result' = wood
    /\ UNCHANGED <<photoUri, showMore, handlers>>
  /\ UNCHANGED mvars

\* index.tsx:207-217
clearImage ==
  /\ ~ModalOpen
  /\ photoUri # ""
  /\ canInteract
  /\ photoUri' = ""
  /\ status' = "idle"
  /\ statusMessage' = <<>>
  /\ result' = Null
  /\ topMatches' = <<>>
  /\ mainMatch' = Null
  /\ selectedMatch' = Null
  /\ showMore' = FALSE
  /\ delivered' = Null
  /\ shownFor' = ""
  /\ UNCHANGED <<handlers, queries>>
  /\ UNCHANGED mvars

\* index.tsx:140-153
setSelectedMatchAndResult(match) ==
  LET wood == findWoodBySpeciesKey(match.speciesKey)
  IN IF wood = Null
     THEN UNCHANGED <<selectedMatch, result, status>>
     ELSE /\ selectedMatch' = match
          /\ result' = wood
          /\ status' = "done"

\* index.tsx:350-355  the press of the status banner
PressBanner ==
  /\ ~ModalOpen
  /\ status # "idle"
  /\ canReturnToMain
  /\ setSelectedMatchAndResult(mainMatch)
  /\ delivered' = Null
  /\ UNCHANGED <<photoUri, statusMessage, showMore, topMatches, mainMatch,
                 handlers, queries, shownFor>>
  /\ UNCHANGED mvars

\* index.tsx:248-266  the press of an alternate match
PressAlternate ==
  /\ ~ModalOpen
  /\ result # Null
  /\ showMore
  /\ Len(topMatches) >= 2
  /\ \E k \in 2..Min(3, Len(topMatches)) : setSelectedMatchAndResult(topMatches[k])
  /\ delivered' = Null
  /\ UNCHANGED <<photoUri, statusMessage, showMore, topMatches, mainMatch,
                 handlers, queries, shownFor>>
  /\ UNCHANGED mvars

\* index.tsx:415-437  Show More / Show Less
ToggleShowMore ==
  /\ ~ModalOpen
  /\ result # Null
  /\ showMore' = ~showMore
  /\ delivered' = Null
  /\ UNCHANGED <<photoUri, status, statusMessage, result, topMatches, mainMatch,
                 selectedMatch, handlers, queries, shownFor>>
  /\ UNCHANGED mvars

HostNext ==
  \/ handleTakeImage \/ handlePickImage \/ PermissionSettles \/ LaunchSettles
  \/ handleSubmitImage \/ TimerFires \/ MatchSettles \/ clearImage
  \/ PressBanner \/ PressAlternate \/ ToggleShowMore

(***************************************************************************)
(* Specifications.                                                         *)
(*   Spec       matchBarkPhoto called again and again, on any index        *)
(*   TwiceSpec  the same, with the observer, on the full-length indices    *)
(*   HostSpec   the screen, with the index it imports                      *)
(***************************************************************************)
Init == barkIndex \in Indices /\ MInit /\ HostInit

Next == Call \/ Decode \/ QualityGate \/ Extract \/ Score \/ Rank \/ Normalize

Spec == Init /\ [][Next]_vars

TwiceInit ==
  /\ barkIndex \in {ix \in Indices : Len(ix.entries) = Min(MaxEntries, Len(Pool))}
  /\ MInit /\ HostInit

TwiceNext == Next \/ Remember

TwiceSpec == TwiceInit /\ [][TwiceNext]_vars

ScreenInit == barkIndex \in HostIndices /\ MInit /\ HostInit

HostSpec == ScreenInit /\ [][HostNext]_vars

\* index.tsx:165-204  the screen when every timer set by setTimeout fires and
\* every matchBarkPhoto promise settles; the user and the pickers may stop.
LiveHostSpec ==
  /\ ScreenInit
  /\ [][HostNext]_vars
  /\ WF_vars(TimerFires)
  /\ WF_vars(MatchSettles)

(***************************************************************************)
(* Properties of matchBarkPhoto.                                           *)
(***************************************************************************)
\* The process, run step by step, ends with the outcome of matchBarkPhoto.
StepsAgree == pc = "done" => ret = matchBarkPhoto(photo, barkIndex, topK)

NLabels == Cardinality(Labels(barkIndex))
PassedGate == qQuality # Null /\ ~qQuality.isTooBlank

\* C1: a query returns at most min(topK, N) results, N the number of distinct
\* labels of the index: every returned result has a position of at most
\* min(topK, N).
C1_AtMostMinTopKN ==
  ret.outcome = "returned" =>
    \A k \in 1..Len(ret.value) : k <= Min(topK, NLabels)

\* C2: in a returned list the ranks are 1, 2, ..., K in order, confidence does
\* not increase with rank, and the labels are pairwise distinct.
C2_RanksConfidenceLabels ==
  ret.outcome = "returned" =>
    /\ \A k \in 1..Len(ret.value) : ret.value[k].rank = k
    /\ \A j, k \in 1..Len(ret.value) :
         j < k => /\ ret.value[j].rank < ret.value[k].rank
                  /\ ret.value[j].confidence >= ret.value[k].confidence
                  /\ ret.value[j].speciesKey # ret.value[k].speciesKey

C2_Witness ==
  /\ pc = "done"
  /\ Len(ret.value) >= 2
  /\ ret.value[1].confidence > ret.value[2].confidence
  /\ Len(barkIndex.entries) > NLabels

\* C3: every confidence of a returned list lies in [0.05, 0.99].
C3_ConfidenceRange ==
  ret.outcome = "returned" =>
    \A k \in 1..Len(ret.value) :
      ret.value[k].confidence >= 500 /\ ret.value[k].confidence <= 9900

C3_Witness ==
  /\ pc = "done"
  /\ Len(ret.value) >= 3
  /\ ret.value[1].distance = ret.value[2].distance
  /\ ret.value[2].distance < ret.value[3].distance

\* C4 as stated: with topK = 1 a query against a non-empty index that returns,
\* returns exactly one result, of confidence 0.95.
C4_Original ==
  (pc = "done" /\ ret.outcome = "returned" /\ topK = 1 /\ Len(barkIndex.entries) > 0) =>
    (Len(ret.value) = 1 /\ ret.value[1].confidence = 9500)

\* C4 amended: with topK = 1, a query with an image that decodes and passes
\* the quality gate, against a non-empty index, returns exactly one result,
\* of confidence 0.95.
C4_TopK1PassedGate ==
  (pc = "done" /\ PassedGate /\ topK = 1 /\ Len(barkIndex.entries) > 0) =>
    (ret.outcome = "returned" /\ Len(ret.value) = 1 /\ ret.value[1].confidence = 9500)

C4_Witness ==
  /\ pc = "done" /\ PassedGate /\ topK = 1
  /\ NLabels >= 2
  /\ Len(ret.value) = 1 /\ ret.value[1].confidence = 9500

\* C5: when the decoded image has (mean < 18 and std < 10) or edgeNorm < 0.02,
\* the call neither extracts features nor scores an entry, and it returns the
\* empty list, whatever the index and topK.
C5_GateShortCircuits ==
  (decoded # Null /\
     LET m == analyzeImageQuality(decoded)
     IN (m.mean < 180 /\ m.std < 100) \/ m.edgeNorm < 20) =>
    /\ \A k \in 1..Len(stages) : stages[k] \notin {"extract", "score", "rank", "normalize"}
    /\ q = Null
    /\ pc \in {"quality", "done"}
    /\ pc = "done" => ret = Returned(<<>>)

C5_Witness ==
  /\ pc = "done" /\ decoded # Null
  /\ qQuality.mean < 180 /\ qQuality.std < 100 /\ qQuality.edgeNorm >= 20
  /\ Len(barkIndex.entries) > 0 /\ topK > 0
  /\ ret = Returned(<<>>)

\* C6: a photo that decodes never ends in an error; with an image that passes
\* the gate and an index without entries the call returns the empty list.
C6_ValidImageNeverThrows ==
  (pc = "done" /\ photo.kind = "jpeg") =>
    /\ ret.outcome = "returned"
    /\ Len(barkIndex.entries) = 0 => ret.value = <<>>

C6_Witness ==
  /\ pc = "done" /\ PassedGate
  /\ Len(barkIndex.entries) = 0
  /\ ret = Returned(<<>>)
  /\ stages = <<"decode", "quality", "extract", "score", "rank", "normalize">>

\* C8: a call with the photo and topK of an earlier call, on the same index,
\* ends with the same outcome: the same list, field by field.
C8_SameInputSameOutput ==
  (pc = "done" /\ first # Null /\ first.photo = photo /\ first.topK = topK) =>
    ret = first.ret

C8_Witness ==
  /\ pc = "done" /\ first # Null /\ first.photo = photo /\ first.topK = topK
  /\ Len(ret.value) >= 2
  /\ ret = first.ret

\* C7: when the photo cannot be resized to base64 or cannot be decoded, the
\* call throws: nothing is returned, no empty list reaches the screen, and the
\* screen ends in the error status with the failure message, never with the
\* message of an invalid image.
C7_FailurePropagates ==
  (delivered # Null /\ PhotoOf(delivered.uri).kind \in {"unreadable", "corrupt"})
    => /\ delivered.ret.outcome = "threw"
       /\ delivered.ret.value = <<>>
       /\ status = "error"
       /\ statusMessage = FailedMsg
       /\ statusMessage # InvalidMsg

C7_Witness ==
  /\ delivered # Null
  /\ PhotoOf(delivered.uri).kind = "corrupt"
  /\ delivered.ret.outcome = "threw"
  /\ status = "error"

\* C9: whatever outcome the screen shows (a finished status, a result, a
\* ranked list or a main match) was produced for the photo now selected.
C9_ShownOutcomeIsForCurrentPhoto ==
  (status \in {"done", "error"} \/ result # Null \/ topMatches # <<>>
     \/ mainMatch # Null)
    => shownFor = photoUri

\* C10: when a query completes with an empty result the screen is in the
\* error status with a message, and it holds no selected result, no main
\* match and no ranked list.
C10_EmptyResultShowsNoResult ==
  (delivered # Null /\ delivered.ret.outcome = "returned"
     /\ delivered.ret.value = <<>>)
    => /\ status = "error"
       /\ statusMessage # <<>>
       /\ result = Null
       /\ mainMatch = Null
       /\ selectedMatch = Null
       /\ topMatches = <<>>

RECURSIVE Dists(_, _)
\* The distance of the query features qf to each entry, in index order.
Dists(qf, entries) ==
  IF entries = <<>> THEN <<>>
  ELSE <<distance(qf, Head(entries))>> \o Dists(qf, Tail(entries))

\* C11: when the scoring loop has run, the Map holds exactly one candidate for
\* every label of the index; the candidate's distance is the least distance
\* over the entries of its label, and its filename is that of the first entry,
\* in index order, that has this least distance.
C11_PerLabelReduction ==
  pc = "rank" =>
    \E D \in {Dists(q, barkIndex.entries)} :
      LET es == barkIndex.entries
          OfLabel(key) == { i \in 1..Len(es) : es[i].speciesKey = key }
      IN /\ Len(bestBySpecies) = NLabels
         /\ { bestBySpecies[k].speciesKey : k \in 1..Len(bestBySpecies) } = Labels(barkIndex)
         /\ \A k \in 1..Len(bestBySpecies) :
              LET b == bestBySpecies[k]
              IN /\ \A i \in OfLabel(b.speciesKey) : b.dist <= D[i]
                 /\ \E i \in OfLabel(b.speciesKey) :
                      /\ D[i] = b.dist
                      /\ es[i].filename = b.filename
                      /\ \A j \in OfLabel(b.speciesKey) : j < i => D[j] > b.dist

\* Two entries of one label are equally near and the first is kept.
C11_Witness ==
  /\ pc = "rank"
  /\ \E i, j \in 1..Len(barkIndex.entries) :
       /\ i < j
       /\ barkIndex.entries[i].speciesKey = barkIndex.entries[j].speciesKey
       /\ distance(q, barkIndex.entries[i]) = distance(q, barkIndex.entries[j])
       /\ \E k \in 1..Len(bestBySpecies) :
            bestBySpecies[k].filename = barkIndex.entries[i].filename

\* The place where a label first appears in the index.
FirstAt(key) ==
  CHOOSE i \in 1..Len(barkIndex.entries) :
    /\ barkIndex.entries[i].speciesKey = key
    /\ \A j \in 1..(i - 1) : barkIndex.entries[j].speciesKey # key

\* Candidate a comes before candidate b: it is nearer, or as near and its
\* label appears first in the index.
ComesBefore(a, b) ==
  \/ a.dist < b.dist
  \/ a.dist = b.dist /\ FirstAt(a.speciesKey) < FirstAt(b.speciesKey)

\* C12: the returned results are in ascending distance, results of equal
\* distance in the order their labels first appear in the index, and they are
\* the first topK candidates of this order (all of them when there are fewer,
\* none when topK is not positive).
C12_SortedStableTruncated ==
  (pc = "done" /\ PassedGate) =>
    LET v == ret.value
        kept == { v[k].speciesKey : k \in 1..Len(v) }
    IN /\ \A j, k \in 1..Len(v) :
            j < k => ComesBefore([dist |-> v[j].distance, speciesKey |-> v[j].speciesKey],
                                 [dist |-> v[k].distance, speciesKey |-> v[k].speciesKey])
       /\ Len(v) = Max(0, Min(topK, NLabels))
       /\ \A m \in 1..Len(bestBySpecies) :
            bestBySpecies[m].speciesKey \notin kept =>
              \A k \in 1..Len(v) :
                ComesBefore([dist |-> v[k].distance, speciesKey |-> v[k].speciesKey],
                            bestBySpecies[m])

\* C12 for a topK that is not negative.
C12_NonNegativeTopK == topK >= 0 => C12_SortedStableTruncated

\* C13: every channel value 0..255 has a bin in 0..3, so every pixel of the
\* decoded image falls in one bucket 0..63; once the features are extracted
\* the bucket counts add up to width * height (the normalised histogram adds
\* up to 1), and the edge value lies in [0, 1].
C13_HistogramSumsToOne ==
  pc = "score" =>
    /\ \A v \in 0..255 : binIndex(v) \in 0..(BINS - 1)
    /\ \A i \in 1..(decoded.w * decoded.h) :
         bucket(decoded.data[i]) \in 0..(BINS * BINS * BINS - 1)
    /\ DOMAIN q.hist = 0..(BINS * BINS * BINS - 1)
    /\ \A b \in DOMAIN q.hist : q.hist[b] >= 0
    /\ q.den = decoded.w * decoded.h
    /\ SumOver(q.hist, 0, BINS * BINS * BINS - 1) = q.den
    /\ q.edge >= 0 /\ q.edge <= 1000

C13_Witness ==
  /\ pc = "score"
  /\ \E i \in 1..(decoded.w * decoded.h) : decoded.data[i] = White
  /\ Cardinality({ b \in DOMAIN q.hist : q.hist[b] > 0 }) >= 2
  /\ q.den = 9

\* The feature vectors of the entries of the index.
EntryFeatures == { barkIndex.entries[i].features : i \in 1..Len(barkIndex.entries) }

\* C14: the distance of the query's feature vector to itself is 0, and for the
\* feature vector of every entry of the index the distance is the same in
\* both directions and never negative.
C14_DistanceIsSymmetric ==
  pc = "score" =>
    /\ distance(q, [features |-> q]) = 0
    /\ \A f \in EntryFeatures :
         \E d \in {distance(q, [features |-> f])} :
           /\ d >= 0
           /\ d = distance(f, [features |-> q])
           /\ distance(f, [features |-> f]) = 0

C14_Witness ==
  /\ pc = "score"
  /\ \E f \in EntryFeatures :
       /\ f.edge > q.edge
       /\ f.hist # q.hist
       /\ distance(q, [features |-> f]) > 0
  /\ \E f \in EntryFeatures : f.edge < q.edge

\* C15: for a decoded image with width * height = 0 the quality metrics are
\* mean 0, std 0, edgeNorm 0 and isTooBlank, no pixel was visited, and the
\* call goes no further than the gate: it returns the empty list.
C15_ZeroAreaRejected ==
  (qQuality # Null /\ decoded.w * decoded.h = 0) =>
    /\ qQuality.mean = 0 /\ qQuality.std = 0 /\ qQuality.edgeNorm = 0
    /\ qQuality.isTooBlank
    /\ qQuality.loops = 0
    /\ q = Null
    /\ pc = "done" /\ ret = Returned(<<>>)
    /\ stages = <<"decode", "quality">>

C15_Witness ==
  /\ pc = "done"
  /\ decoded = ZeroImage
  /\ qQuality # Null /\ qQuality.loops = 0
  /\ Len(barkIndex.entries) > 0 /\ topK > 0
  /\ ret = Returned(<<>>)

\* C16: no step of matchBarkPhoto changes the reference index: its entries,
\* their order and every entry's label, filename and features stay as they
\* were, whether the query is rejected, empty or successful.
C16_IndexNeverModified == [][barkIndex' = barkIndex]_vars

\* A successful query has returned, and its best match is not the first
\* entry of the index: the ranked order differs from the index order.
C16_Witness ==
  /\ pc = "done"
  /\ Len(barkIndex.entries) = MaxEntries
  /\ Len(ret.value) >= 2
  /\ ret.value[1].speciesKey # barkIndex.entries[1].speciesKey

\* C17: for every decoded image the edge value of extractFeaturesFromRGBA is
\* the edgeNorm of analyzeImageQuality, and both are 0 when the image has no
\* interior pixel; in particular the features of a query carry the edgeNorm
\* its quality gate saw.
C17_EdgeEqualsEdgeNorm ==
  qQuality # Null =>
    /\ extractFeaturesFromRGBA(decoded).edge = qQuality.edgeNorm
    /\ (decoded.w < 3 \/ decoded.h < 3) =>
         /\ Interior(decoded) = {} /\ InteriorRange(decoded) = {}
         /\ qQuality.edgeNorm = 0
    /\ q # Null => q.edge = qQuality.edgeNorm

C17_Witness ==
  /\ pc = "score"
  /\ decoded.w = 4 /\ decoded.h = 3
  /\ q.edge > 0 /\ q.edge < 1000
  /\ q.edge = qQuality.edgeNorm

C19_DoneHasResult ==
  status = "done" => (result # Null /\ selectedMatch # Null)

\* C20: at most one query (a submission whose timer or matcher call is
\* outstanding) is pending at any time.
C20_AtMostOnePendingQuery == BagCardinality(queries) <= 1

\* C21: when the timers fire and the matcher calls settle, a screen in status
\* processing leads to the completion of a query, and that completion leaves
\* the status done or error: the status does not stay processing.
C21_ProcessingEnds ==
  (status = "processing") ~>
    (delivered # Null /\ status \in {"done", "error"})

\* A submission was accepted and its completion, for the photo still
\* selected, has set the status.
C21_Witness ==
  /\ delivered # Null
  /\ delivered.uri = photoUri
  /\ delivered.ret.outcome = "returned"
  /\ status \in {"done", "error"}
  /\ queries = EmptyBag

\* A result list without its confidence values.
WithoutConfidence(v) ==
  [k \in 1..Len(v) |->
     [rank |-> v[k].rank, speciesKey |-> v[k].speciesKey,
      filename |-> v[k].filename, distance |-> v[k].distance]]

\* s is a prefix of t
IsPrefix(s, t) == Len(s) <= Len(t) /\ SubSeq(t, 1, Len(s)) = s

\* C22: for one photo and index, and 0 <= k1 <= k2, the ranks, labels,
\* filenames and distances returned with topK = k1 are a prefix of those
\* returned with topK = k2, whichever of the two calls came first.
C22_SmallerTopKIsPrefix ==
  (pc = "done" /\ first # Null /\ first.photo = photo
     /\ first.topK >= 0 /\ topK >= 0) =>
    /\ first.topK <= topK =>
         IsPrefix(WithoutConfidence(first.ret.value), WithoutConfidence(ret.value))
    /\ topK <= first.topK =>
         IsPrefix(WithoutConfidence(ret.value), WithoutConfidence(first.ret.value))

\* The call with the larger topK returned more results, and the last result
\* of the shorter list has another confidence in the longer one.
C22_Witness ==
  /\ pc = "done" /\ first # Null /\ first.photo = photo
  /\ first.topK >= 1 /\ first.topK < topK
  /\ Len(first.ret.value) = 2 /\ Len(ret.value) = 3
  /\ IsPrefix(WithoutConfidence(first.ret.value), WithoutConfidence(ret.value))
  /\ first.ret.value[2].confidence # ret.value[2].confidence

====
